---------------------------- MODULE Spec2Model ----------------------------
(***************************************************************************)
(* Super Timer (src/src/app/page.tsx): the instruction builder, the        *)
(* sequence expander, the countdown runner and the saved timers of the     *)
(* Home component, as a state machine.                                     *)
(*                                                                         *)
(* Conventions.                                                            *)
(*  - A JavaScript string is a sequence of one-character strings.          *)
(*  - A value that may be null / NaN is a set: {} is null (NaN), {v} is v. *)
(*  - programIntervalRef holds 0 for null: the code only tests its         *)
(*    truthiness and interval ids are positive.                            *)
(*  - An event handler together with the render that follows it is one     *)
(*    step.  A render caused by a click is committed synchronously and its *)
(*    effects run in the same task; a render caused by the interval        *)
(*    callback leaves the countdown effect pending until                   *)
(*    flushCountdownEffect runs it, and React runs a pending effect before *)
(*    the next render.                                                     *)
(***************************************************************************)
EXTENDS Integers, Sequences, FiniteSets, TLC

(* ------------------------------ bounds -------------------------------- *)
\* SpecRun: longest instruction list of an initial state, edits of the current
\* instruction in one run, interval callbacks between the finishing tick and
\* the effect cleanup.
MaxRunInstr == 2
MaxPatches == 1
MaxStaleTicks == 2
\* SpecFlatten: longest argument of the expander.
MaxFlattenInstr == 3
\* SpecInstr: longest instruction list, largest instructionIdRef.current.
MaxInstr == 3
MaxInstrId == 3
\* SpecIds: the same, and the saved timers held at once.
MaxIdsInstr == 2
MaxIdsInstrId == 2
MaxIdsSaved == 1
\* SpecSaved: the same, and the largest savedTimerIdRef.current.
MaxSavedInstr == 1
MaxSaved == 2
MaxSavedId == 2
\* SpecRoundTrip: formatTime is called with every duration up to this one.
MaxSmallSeconds == 130
\* SpecParse: most colon-separated fields of a text given to parseTimeInput.
MaxFields == 4
\* SpecPersist: the saved timers held at once, largest savedTimerIdRef.current.
MaxPersistSaved == 2
MaxPersistId == 2

VARIABLES
    instructions,       \* useState<Instruction[]>            (line 20)
    timeInput,          \* useState("")                        (line 21)
    repeatInput,        \* useState<number>(1)                 (line 22)
    instructionIdRef,   \* useRef(0)                           (line 23)
    flattenedSequence,  \* useState<TimeInstruction[]>         (line 139)
    programState,       \* useState({index, countdown})        (line 140)
    isProgramRunning,   \* useState(false)                     (line 144)
    programIntervalRef, \* useRef<number | null>(null)         (line 145)
    intervals,          \* the browser's live intervals, each with the
                        \* flattenedSequence its callback closed over
    effectPending,      \* the countdown effect's deps changed in a render
                        \* whose effects have not run yet
    savedTimers,        \* useState<SavedTimer[]>              (line 211)
    savedTimerName,     \* useState("")                        (line 212)
    loadedTimerId,      \* useState<number | null>(null)       (line 213)
    savedTimerIdRef,    \* useRef(0)                           (line 214)
    storage,            \* localStorage slot "savedTimers"
    flattenInput,       \* expander harness: the argument
    flattenOutput,      \* expander harness: the returned list, {} before the call
    formatInput,        \* time harness: the argument of formatTime, {} if none
    parseInput,         \* time harness: the argument of parseTimeInput, {} if none
    parseOutput,        \* time harness: {} before the call, then the one-element
                        \* set holding what parseTimeInput returned
    phase,              \* history: "Idle" | "Running" | "Finished"
    tickCount,          \* history: interval callbacks since the last start
    cueCount,           \* history: audio cues since the last start
    patchCount,         \* history: edits of the current instruction this run
    lastOp              \* history: the last handler, its outcome and its input

builderVars == <<instructions, timeInput, repeatInput, instructionIdRef>>
runnerVars == <<flattenedSequence, programState, isProgramRunning,
                programIntervalRef, intervals, effectPending>>
savedVars == <<savedTimers, savedTimerName, loadedTimerId, savedTimerIdRef, storage>>
flattenVars == <<flattenInput, flattenOutput>>
timeVars == <<formatInput, parseInput, parseOutput>>
harnessVars == <<flattenVars, timeVars>>
historyVars == <<phase, tickCount, cueCount, patchCount>>
vars == <<builderVars, runnerVars, savedVars, harnessVars, historyVars, lastOp>>

Null == {}

Val(opt) == CHOOSE v \in opt : TRUE

\* The record kept in lastOp.
Op(name, arg) == [name |-> name, arg |-> arg]

(* ------------------------------ strings ------------------------------- *)
DigitChars == <<"0", "1", "2", "3", "4", "5", "6", "7", "8", "9">>

IsDigit(c) == \E i \in 1..10 : DigitChars[i] = c

DigitVal(c) == (CHOOSE i \in 1..10 : DigitChars[i] = c) - 1

\* Drop the first n characters.
Drop(s, n) == IF n >= Len(s) THEN <<>> ELSE SubSeq(s, n + 1, Len(s))

\* Number of leading blanks of s.
RECURSIVE LeadingBlanks(_)
LeadingBlanks(s) ==
    IF s # <<>> /\ Head(s) = " " THEN 1 + LeadingBlanks(Tail(s)) ELSE 0

RECURSIVE LeadingDigits(_)
LeadingDigits(s) ==
    IF s # <<>> /\ IsDigit(Head(s)) THEN 1 + LeadingDigits(Tail(s)) ELSE 0

RECURSIVE DigitsValue(_, _)
DigitsValue(s, acc) ==
    IF s = <<>> THEN acc ELSE DigitsValue(Tail(s), acc * 10 + DigitVal(Head(s)))

\* parseInt(s, 10): skip leading blanks, take an optional sign, read the
\* longest run of digits and ignore what follows it; NaN ({}) without a digit.
parseInt(s) ==
    LET t == Drop(s, LeadingBlanks(s))
        signed == t # <<>> /\ Head(t) \in {"-", "+"}
        u == IF signed THEN Tail(t) ELSE t
        n == LeadingDigits(u)
        v == DigitsValue(SubSeq(u, 1, n), 0)
    IN  IF n = 0 THEN {}
        ELSE IF signed /\ Head(t) = "-" THEN {0 - v} ELSE {v}

\* input.split(":"): the fields between the colons, at least one field.
RECURSIVE split(_)
split(s) ==
    IF \A i \in 1..Len(s) : s[i] # ":" THEN <<s>>
    ELSE LET k == CHOOSE i \in 1..Len(s) :
                      s[i] = ":" /\ \A j \in 1..(i - 1) : s[j] # ":"
         IN  <<SubSeq(s, 1, k - 1)>> \o split(Drop(s, k))

parseTimeInput(input) ==
    LET parts == [i \in 1..Len(split(input)) |-> parseInt(split(input)[i])]
    IN  IF \E i \in 1..Len(parts) : parts[i] = {} THEN {}
        ELSE IF Len(parts) = 3
             THEN {Val(parts[1]) * 3600 + Val(parts[2]) * 60 + Val(parts[3])}
        ELSE IF Len(parts) = 2
             THEN {Val(parts[1]) * 60 + Val(parts[2])}
        ELSE IF Len(parts) = 1 THEN parts[1]
        ELSE {}

\* n.toString() of a non-negative integer.
RECURSIVE toString(_)
toString(n) ==
    IF n < 10 THEN <<DigitChars[n + 1]>>
    ELSE toString(n \div 10) \o <<DigitChars[(n % 10) + 1]>>

\* s.padStart(targetLength, "0").
RECURSIVE padStart(_, _)
padStart(s, targetLength) ==
    IF Len(s) >= targetLength THEN s ELSE padStart(<<"0">> \o s, targetLength)

\* Mutant of formatTime: the hours field is cut to its last two digits.
formatTimeTwoDigitHours(totalSeconds) ==
    LET hrs == (totalSeconds \div 3600) % 100
        mins == (totalSeconds % 3600) \div 60
        secs == totalSeconds % 60
    IN  padStart(toString(hrs), 2) \o <<":">> \o padStart(toString(mins), 2)
            \o <<":">> \o padStart(toString(secs), 2)

formatTime(totalSeconds) ==
    LET hrs == totalSeconds \div 3600
        mins == (totalSeconds % 3600) \div 60
        secs == totalSeconds % 60
    IN  padStart(toString(hrs), 2) \o <<":">> \o padStart(toString(mins), 2)
            \o <<":">> \o padStart(toString(secs), 2)

(* ------------------------------ expander ------------------------------ *)
TimeInst(i, t) == [id |-> i, type |-> "time", time |-> t]
RepeatInst(i, k) == [id |-> i, type |-> "repeat", times |-> k]

\* Mutant of PushCopies: no snapshot, each round appends the list as it has
\* grown so far.
RECURSIVE PushCopiesGrowing(_, _, _, _)
PushCopiesGrowing(flattened, copy, i, times) ==
    IF i < times
    THEN PushCopiesGrowing(flattened \o flattened, copy, i + 1, times)
    ELSE flattened

\* The inner loop, lines 130-132: for (i = 0; i < times; i++) push(...copy).
RECURSIVE PushCopies(_, _, _, _)
PushCopies(flattened, copy, i, times) ==
    IF i < times THEN PushCopies(flattened \o copy, copy, i + 1, times)
    ELSE flattened

\* The outer loop, lines 125-134, from instruction k on.
RECURSIVE FlattenLoop(_, _, _)
FlattenLoop(instrs, k, flattened) ==
    IF k > Len(instrs) THEN flattened
    ELSE IF instrs[k].type = "time"
         THEN FlattenLoop(instrs, k + 1, Append(flattened, instrs[k]))
         ELSE FlattenLoop(instrs, k + 1,
                          PushCopies(flattened, flattened, 0, instrs[k].times))

flattenInstructionsEntire(instrs) == FlattenLoop(instrs, 1, <<>>)

(* ------------------------------- runner ------------------------------- *)
RECURSIVE MaxOf(_)
MaxOf(S) == IF S = {} THEN 0
            ELSE LET x == CHOOSE x \in S : TRUE
                     m == MaxOf(S \ {x})
                 IN  IF x > m THEN x ELSE m

\* window.setInterval returns an id no live interval has.
NewIntervalId(live) == MaxOf({iv.id : iv \in live}) + 1

\* Mutant of ClearRefInterval: the interval is never cleared.
ClearRefIntervalNoop(live, ref) == live

\* if (programIntervalRef.current) clearInterval(programIntervalRef.current);
ClearRefInterval(live, ref) ==
    IF ref # 0 THEN {iv \in live : iv.id # ref} ELSE live

\* One run of the countdown effect (lines 182-208) after a render with the
\* given isProgramRunning and flattenedSequence: the previous run's cleanup,
\* then the setup, whose callback closes over that flattenedSequence.
CountdownEffect(live, ref, running, sequence) ==
    LET cleaned == ClearRefInterval(live, ref)
        newId == NewIntervalId(cleaned)
    IN  IF running
        THEN [intervals |-> cleaned \cup
                            {[id |-> newId, flattenedSequence |-> sequence]},
              ref |-> newId]
        ELSE [intervals |-> cleaned, ref |-> ref]

\* The effects of the last commit, run before the next render if still pending.
Flushed ==
    IF effectPending
    THEN CountdownEffect(intervals, programIntervalRef, isProgramRunning,
                         flattenedSequence)
    ELSE [intervals |-> intervals, ref |-> programIntervalRef]

\* A render that leaves the countdown effect's deps as they were.
RenderSameDeps ==
    /\ intervals' = Flushed.intervals
    /\ programIntervalRef' = Flushed.ref
    /\ effectPending' = FALSE
    /\ UNCHANGED <<flattenedSequence, programState, isProgramRunning>>

\* Mutant of StartRejects: a one-entry sequence is refused as well.
StartRejectsShort(sequence) == Len(sequence) <= 1

\* if (sequence.length === 0) return;   (line 151)
StartRejects(sequence) == Len(sequence) = 0

\* Mutant of startProgram: a sequence left by an earlier run is run again as it
\* is, with the durations that run was patched to.
startProgramReusesSequence ==
    /\ ~isProgramRunning
    /\ LET sequence == IF flattenedSequence # <<>> THEN flattenedSequence
                       ELSE flattenInstructionsEntire(instructions)
       IN  IF StartRejects(sequence)
           THEN /\ lastOp' = Op("start:rejected", Null)
                /\ UNCHANGED <<runnerVars, historyVars>>
           ELSE LET eff == CountdownEffect(Flushed.intervals, Flushed.ref,
                                           TRUE, sequence)
                IN  /\ flattenedSequence' = sequence
                    /\ programState' = [index |-> 0, countdown |-> sequence[1].time]
                    /\ isProgramRunning' = TRUE
                    /\ intervals' = eff.intervals
                    /\ programIntervalRef' = eff.ref
                    /\ effectPending' = FALSE
                    /\ phase' = "Running"
                    /\ tickCount' = 0
                    /\ cueCount' = 0
                    /\ patchCount' = 0
                    /\ lastOp' = Op("start", [replaced |-> flattenedSequence # <<>>
                                                   /\ flattenedSequence # sequence])
    /\ UNCHANGED <<builderVars, savedVars, harnessVars>>

\* Lines 149-155; the button is rendered only while not running (line 287).
startProgram ==
    /\ ~isProgramRunning
    /\ LET sequence == flattenInstructionsEntire(instructions)
       IN  IF StartRejects(sequence)
           THEN /\ lastOp' = Op("start:rejected", Null)
                /\ UNCHANGED <<runnerVars, historyVars>>
           ELSE LET eff == CountdownEffect(Flushed.intervals, Flushed.ref,
                                           TRUE, sequence)
                IN  /\ flattenedSequence' = sequence
                    /\ programState' = [index |-> 0, countdown |-> sequence[1].time]
                    /\ isProgramRunning' = TRUE
                    /\ intervals' = eff.intervals
                    /\ programIntervalRef' = eff.ref
                    /\ effectPending' = FALSE
                    /\ phase' = "Running"
                    /\ tickCount' = 0
                    /\ cueCount' = 0
                    /\ patchCount' = 0
                    /\ lastOp' = Op("start", [replaced |-> flattenedSequence # <<>>
                                                   /\ flattenedSequence # sequence])
    /\ UNCHANGED <<builderVars, savedVars, harnessVars>>

\* Lines 157-160; the button is rendered only while running (line 417).
stopProgram ==
    /\ isProgramRunning
    /\ LET cleared == ClearRefInterval(Flushed.intervals, Flushed.ref)
           eff == CountdownEffect(cleared, Flushed.ref, FALSE, flattenedSequence)
       IN  /\ isProgramRunning' = FALSE
           /\ intervals' = eff.intervals
           /\ programIntervalRef' = eff.ref
           /\ effectPending' = FALSE
    /\ phase' = "Idle"
    /\ lastOp' = Op("stop", Null)
    /\ UNCHANGED <<flattenedSequence, programState, tickCount, cueCount, patchCount>>
    /\ UNCHANGED <<builderVars, savedVars, harnessVars>>

\* Mutant of PatchEntry: the entry is changed in place, so every position that
\* holds the same instruction object shows the new time.
PatchEntryInPlace(sequence, idx, newSeconds) ==
    [j \in 1..Len(sequence) |->
        IF sequence[j].id = sequence[idx + 1].id
        THEN [sequence[j] EXCEPT !.time = newSeconds] ELSE sequence[j]]

\* Mutant of PatchEntry: the sequence keeps the old time.
PatchEntryKeepsTime(sequence, idx, newSeconds) == sequence

\* The entry of the array at 0-based position idx replaced by a copy with the
\* new time (lines 172-174).
PatchEntry(sequence, idx, newSeconds) ==
    [sequence EXCEPT ![idx + 1] = [@ EXCEPT !.time = newSeconds]]

\* Lines 163-179; answer is what window.prompt returned (Null when cancelled).
editCurrentInstruction(answer) ==
    /\ IF ~isProgramRunning
       THEN /\ lastOp' = Op("patch:notRunning", answer)
            /\ UNCHANGED <<runnerVars, historyVars>>
       ELSE LET newSeconds == IF answer = Null \/ Val(answer) = <<>> THEN Null
                              ELSE parseTimeInput(Val(answer))
            IN  IF newSeconds # Null /\ Val(newSeconds) > 0
                THEN LET sequence == PatchEntry(flattenedSequence,
                                                programState.index, Val(newSeconds))
                         eff == CountdownEffect(Flushed.intervals, Flushed.ref,
                                                TRUE, sequence)
                     IN  /\ flattenedSequence' = sequence
                         /\ programState' = [programState EXCEPT
                                                 !.countdown = Val(newSeconds)]
                         /\ intervals' = eff.intervals
                         /\ programIntervalRef' = eff.ref
                         /\ effectPending' = FALSE
                         /\ patchCount' = patchCount + 1
                         /\ lastOp' = Op("patch", answer)
                         /\ UNCHANGED <<isProgramRunning, phase, tickCount, cueCount>>
                ELSE /\ lastOp' = Op("patch:rejected", answer)
                     /\ UNCHANGED <<runnerVars, historyVars>>
    /\ UNCHANGED <<builderVars, savedVars, harnessVars>>

\* Mutant of TickUpdate: the step ends when the countdown shows 1.
TickUpdateEndsAtOne(prev, sequence) ==
    IF prev.countdown > 1
    THEN [state |-> [prev EXCEPT !.countdown = prev.countdown - 1],
          cue |-> FALSE, finish |-> FALSE]
    ELSE LET newIndex == prev.index + 1
         IN  IF newIndex < Len(sequence)
             THEN [state |-> [index |-> newIndex,
                              countdown |-> sequence[newIndex + 1].time],
                   cue |-> TRUE, finish |-> FALSE]
             ELSE [state |-> prev, cue |-> TRUE, finish |-> TRUE]

\* Mutant of TickUpdate: after the last entry the run starts over at the first.
TickUpdateWrapsAround(prev, sequence) ==
    IF prev.countdown > 0
    THEN [state |-> [prev EXCEPT !.countdown = prev.countdown - 1],
          cue |-> FALSE, finish |-> FALSE]
    ELSE LET newIndex == (prev.index + 1) % Len(sequence)
         IN  [state |-> [index |-> newIndex,
                         countdown |-> sequence[newIndex + 1].time],
              cue |-> TRUE, finish |-> FALSE]

\* The updater of lines 185-202 applied to prev, with the flattenedSequence the
\* callback closed over: the next programState, whether a cue is played and
\* whether setIsProgramRunning(false) is called.
TickUpdate(prev, sequence) ==
    IF prev.countdown > 0
    THEN [state |-> [prev EXCEPT !.countdown = prev.countdown - 1],
          cue |-> FALSE, finish |-> FALSE]
    ELSE LET newIndex == prev.index + 1
         IN  IF newIndex < Len(sequence)
             THEN [state |-> [index |-> newIndex,
                              countdown |-> sequence[newIndex + 1].time],
                   cue |-> TRUE, finish |-> FALSE]
             ELSE [state |-> prev, cue |-> TRUE, finish |-> TRUE]

\* The interval callback of lines 184-203 of a live interval.
tick ==
    \E iv \in intervals :
        LET u == TickUpdate(programState, iv.flattenedSequence)
        IN  /\ programState' = u.state
            /\ isProgramRunning' = (isProgramRunning /\ ~u.finish)
            /\ effectPending' = (effectPending \/ (isProgramRunning /\ u.finish))
            /\ phase' = IF isProgramRunning /\ u.finish THEN "Finished" ELSE phase
            /\ tickCount' = tickCount + 1
            /\ cueCount' = IF u.cue THEN cueCount + 1 ELSE cueCount
            /\ lastOp' = Op("tick", Null)
            /\ UNCHANGED <<flattenedSequence, intervals, programIntervalRef, patchCount>>
            /\ UNCHANGED <<builderVars, savedVars, harnessVars>>

\* React runs the effects of the commit the interval callback caused.
flushCountdownEffect ==
    /\ effectPending
    /\ intervals' = Flushed.intervals
    /\ programIntervalRef' = Flushed.ref
    /\ effectPending' = FALSE
    /\ lastOp' = Op("flush", Null)
    /\ UNCHANGED <<flattenedSequence, programState, isProgramRunning>>
    /\ UNCHANGED <<builderVars, savedVars, harnessVars, historyVars>>

(* ------------------------------- builder ------------------------------ *)
\* The builder and the saved timers are rendered only while not running
\* (line 287); their handlers render with the countdown effect's deps unchanged.

\* onChange of the time field (line 296).
setTimeInput(text) ==
    /\ ~isProgramRunning
    /\ timeInput' = text
    /\ lastOp' = Op("setTimeInput", Null)
    /\ RenderSameDeps
    /\ UNCHANGED <<instructions, repeatInput, instructionIdRef>>
    /\ UNCHANGED <<savedVars, harnessVars, historyVars>>

\* parseInt(e.target.value) || 1   (line 315): NaN and 0 give 1.
RepeatInputValue(text) ==
    IF parseInt(text) = Null \/ Val(parseInt(text)) = 0 THEN 1
    ELSE Val(parseInt(text))

\* onChange of the repeat field (lines 314-316).
setRepeatInput(text) ==
    /\ ~isProgramRunning
    /\ repeatInput' = RepeatInputValue(text)
    /\ lastOp' = Op("setRepeatInput", Null)
    /\ RenderSameDeps
    /\ UNCHANGED <<instructions, timeInput, instructionIdRef>>
    /\ UNCHANGED <<savedVars, harnessVars, historyVars>>

\* Lines 54-64.
addTimeInstruction ==
    /\ ~isProgramRunning
    /\ LET seconds == parseTimeInput(timeInput)
       IN  IF seconds = Null \/ Val(seconds) <= 0
           THEN /\ lastOp' = Op("addTime:rejected", Null)
                /\ UNCHANGED <<builderVars, runnerVars>>
           ELSE /\ instructions' = Append(instructions,
                                          TimeInst(instructionIdRef, Val(seconds)))
                /\ instructionIdRef' = instructionIdRef + 1
                /\ timeInput' = <<>>
                /\ lastOp' = Op("addTime", Null)
                /\ RenderSameDeps
                /\ UNCHANGED repeatInput
    /\ UNCHANGED <<savedVars, harnessVars, historyVars>>

\* Mutant of HasTime: any non-empty list passes.
HasTimeNonEmpty(instrs) == instrs # <<>>

\* instructions.some((inst) => inst.type === "time")   (line 69)
HasTime(instrs) == \E k \in 1..Len(instrs) : instrs[k].type = "time"

\* Lines 67-76.
addRepeatInstruction ==
    /\ ~isProgramRunning
    /\ IF ~HasTime(instructions)
       THEN /\ lastOp' = Op("addRepeat:rejected", Null)
            /\ UNCHANGED <<builderVars, runnerVars>>
       ELSE /\ instructions' = Append(instructions,
                                      RepeatInst(instructionIdRef, repeatInput))
            /\ instructionIdRef' = instructionIdRef + 1
            /\ lastOp' = Op("addRepeat", Null)
            /\ RenderSameDeps
            /\ UNCHANGED <<timeInput, repeatInput>>
    /\ UNCHANGED <<savedVars, harnessVars, historyVars>>

\* Mutant of EditOne: a payload of 0 is accepted.
EditOneAcceptsZero(inst, id, answer) ==
    IF inst.id # id \/ answer = Null \/ Val(answer) = <<>> THEN inst
    ELSE IF inst.type = "time"
         THEN LET newSeconds == parseTimeInput(Val(answer))
              IN  IF newSeconds # Null /\ Val(newSeconds) >= 0
                  THEN [inst EXCEPT !.time = Val(newSeconds)] ELSE inst
         ELSE LET newRepeat == parseInt(Val(answer))
              IN  IF newRepeat # Null /\ Val(newRepeat) >= 0
                  THEN [inst EXCEPT !.times = Val(newRepeat)] ELSE inst

\* The map callback of lines 83-107 for one instruction; answer is what the
\* prompt shown for it returned.
EditOne(inst, id, answer) ==
    IF inst.id # id \/ answer = Null \/ Val(answer) = <<>> THEN inst
    ELSE IF inst.type = "time"
         THEN LET newSeconds == parseTimeInput(Val(answer))
              IN  IF newSeconds # Null /\ Val(newSeconds) > 0
                  THEN [inst EXCEPT !.time = Val(newSeconds)] ELSE inst
         ELSE LET newRepeat == parseInt(Val(answer))
              IN  IF newRepeat # Null /\ Val(newRepeat) > 0
                  THEN [inst EXCEPT !.times = Val(newRepeat)] ELSE inst

\* The positions of the instructions the map callback prompts for.
Prompted(instrs, id) == {k \in 1..Len(instrs) : instrs[k].id = id}

\* Lines 79-110; answers[k] answers the prompt for the k-th instruction (one
\* prompt for every instruction with the identifier).
editInstruction(id, answers) ==
    /\ ~isProgramRunning
    /\ instructions' = [k \in 1..Len(instructions) |->
                            IF k \in Prompted(instructions, id)
                            THEN EditOne(instructions[k], id, answers[k])
                            ELSE instructions[k]]
    /\ lastOp' = Op("edit", [id |-> id, answers |-> answers])
    /\ RenderSameDeps
    /\ UNCHANGED <<timeInput, repeatInput, instructionIdRef>>
    /\ UNCHANGED <<savedVars, harnessVars, historyVars>>

\* Lines 113-115.
deleteInstruction(id) ==
    /\ ~isProgramRunning
    /\ instructions' = SelectSeq(instructions, LAMBDA inst : inst.id # id)
    /\ lastOp' = Op("delete", id)
    /\ RenderSameDeps
    /\ UNCHANGED <<timeInput, repeatInput, instructionIdRef>>
    /\ UNCHANGED <<savedVars, harnessVars, historyVars>>

\* onClick of "Clear Instructions" (line 407).
clearInstructions ==
    /\ ~isProgramRunning
    /\ instructions' = <<>>
    /\ lastOp' = Op("clear", Null)
    /\ RenderSameDeps
    /\ UNCHANGED <<timeInput, repeatInput, instructionIdRef>>
    /\ UNCHANGED <<savedVars, harnessVars, historyVars>>

(* ----------------------------- saved timers --------------------------- *)
\* The text of the storage slot is a sequence of JSON tokens, each a sequence
\* of characters: a bracket or brace, a number in decimal, or a string (a
\* double quote followed by its characters; keys are strings). Commas, colons
\* and escapes are left out.
NumberToken(n) == IF n < 0 THEN <<"-">> \o toString(0 - n) ELSE toString(n)

StringToken(s) == <<"\"">> \o s

IsNumberToken(tok) ==
    LET digits == IF tok # <<>> /\ Head(tok) = "-" THEN Tail(tok) ELSE tok
    IN  digits # <<>> /\ \A i \in 1..Len(digits) : IsDigit(digits[i])

NumberValue(tok) ==
    IF Head(tok) = "-" THEN 0 - DigitsValue(Tail(tok), 0) ELSE DigitsValue(tok, 0)

IsStringToken(tok) == tok # <<>> /\ Head(tok) = "\""

IdKey == StringToken(<<"i", "d">>)
TypeKey == StringToken(<<"t", "y", "p", "e">>)
TimeKey == StringToken(<<"t", "i", "m", "e">>)
TimesKey == StringToken(<<"t", "i", "m", "e", "s">>)
NameKey == StringToken(<<"n", "a", "m", "e">>)
InstructionsKey ==
    StringToken(<<"i", "n", "s", "t", "r", "u", "c", "t", "i", "o", "n", "s">>)
TimeType == StringToken(<<"t", "i", "m", "e">>)
RepeatType == StringToken(<<"r", "e", "p", "e", "a", "t">>)

\* JSON.stringify of one instruction (lines 5-7), properties in the order the
\* object literals of lines 57-61 and 70-74 give them.
StringifyInstruction(inst) ==
    IF inst.type = "time"
    THEN << <<"{">>, IdKey, NumberToken(inst.id), TypeKey, TimeType,
            TimeKey, NumberToken(inst.time), <<"}">> >>
    ELSE << <<"{">>, IdKey, NumberToken(inst.id), TypeKey, RepeatType,
            TimesKey, NumberToken(inst.times), <<"}">> >>

RECURSIVE StringifyInstructionItems(_)
StringifyInstructionItems(instrs) ==
    IF instrs = <<>> THEN <<>>
    ELSE StringifyInstruction(Head(instrs)) \o StringifyInstructionItems(Tail(instrs))

\* JSON.stringify of one saved timer (lines 12-16).
StringifyTimer(timer) ==
    << <<"{">>, IdKey, NumberToken(timer.id), NameKey, StringToken(timer.name),
       InstructionsKey, <<"[">> >>
        \o StringifyInstructionItems(timer.instructions)
        \o << <<"]">>, <<"}">> >>

RECURSIVE StringifyTimerItems(_)
StringifyTimerItems(timers) ==
    IF timers = <<>> THEN <<>>
    ELSE StringifyTimer(Head(timers)) \o StringifyTimerItems(Tail(timers))

\* JSON.stringify of a saved-timer list, as the text of the storage slot.
Stringify(timers) == << <<"[">> >> \o StringifyTimerItems(timers) \o << <<"]">> >>

\* The result of a parsing step: the value read and the tokens after it.
ParseFail == [ok |-> FALSE, value |-> <<>>, rest |-> <<>>]

\* One instruction object at the head of the tokens.
ParseInstruction(toks) ==
    IF /\ Len(toks) >= 8
       /\ toks[1] = <<"{">>
       /\ toks[2] = IdKey
       /\ IsNumberToken(toks[3])
       /\ toks[4] = TypeKey
       /\ \/ toks[5] = TimeType /\ toks[6] = TimeKey
          \/ toks[5] = RepeatType /\ toks[6] = TimesKey
       /\ IsNumberToken(toks[7])
       /\ toks[8] = <<"}">>
    THEN [ok |-> TRUE,
          value |-> IF toks[5] = TimeType
                    THEN TimeInst(NumberValue(toks[3]), NumberValue(toks[7]))
                    ELSE RepeatInst(NumberValue(toks[3]), NumberValue(toks[7])),
          rest |-> Drop(toks, 8)]
    ELSE ParseFail

\* The instruction objects up to the closing bracket, after those in acc.
RECURSIVE ParseInstructionItems(_, _)
ParseInstructionItems(toks, acc) ==
    IF toks = <<>> THEN ParseFail
    ELSE IF Head(toks) = <<"]">>
    THEN [ok |-> TRUE, value |-> acc, rest |-> Tail(toks)]
    ELSE LET inst == ParseInstruction(toks)
         IN  IF inst.ok
             THEN ParseInstructionItems(inst.rest, Append(acc, inst.value))
             ELSE ParseFail

\* One saved-timer object at the head of the tokens.
ParseTimer(toks) ==
    IF /\ Len(toks) >= 7
       /\ toks[1] = <<"{">>
       /\ toks[2] = IdKey
       /\ IsNumberToken(toks[3])
       /\ toks[4] = NameKey
       /\ IsStringToken(toks[5])
       /\ toks[6] = InstructionsKey
       /\ toks[7] = <<"[">>
    THEN LET instrs == ParseInstructionItems(Drop(toks, 7), <<>>)
         IN  IF instrs.ok /\ instrs.rest # <<>> /\ Head(instrs.rest) = <<"}">>
             THEN [ok |-> TRUE,
                   value |-> [id |-> NumberValue(toks[3]),
                              name |-> Tail(toks[5]),
                              instructions |-> instrs.value],
                   rest |-> Tail(instrs.rest)]
             ELSE ParseFail
    ELSE ParseFail

RECURSIVE ParseTimerItems(_, _)
ParseTimerItems(toks, acc) ==
    IF toks = <<>> THEN ParseFail
    ELSE IF Head(toks) = <<"]">>
    THEN [ok |-> TRUE, value |-> acc, rest |-> Tail(toks)]
    ELSE LET timer == ParseTimer(toks)
         IN  IF timer.ok
             THEN ParseTimerItems(timer.rest, Append(acc, timer.value))
             ELSE ParseFail

\* JSON.parse of the slot's text, read as a SavedTimer[]: Null when it throws.
Parse(text) ==
    IF text # <<>> /\ Head(text) = <<"[">>
    THEN LET timers == ParseTimerItems(Tail(text), <<>>)
         IN  IF timers.ok /\ timers.rest = <<>> THEN {timers.value} ELSE Null
    ELSE Null

\* The effect of lines 229-231 after a render with a new savedTimers.
SaveEffect(timers) == {Stringify(timers)}

\* String.prototype.trim on blanks.
RECURSIVE Trim(_)
Trim(s) ==
    IF s = <<>> THEN s
    ELSE IF Head(s) = " " THEN Trim(Tail(s))
    ELSE IF s[Len(s)] = " " THEN Trim(SubSeq(s, 1, Len(s) - 1))
    ELSE s

\* onChange of the name field (line 362).
setSavedTimerName(text) ==
    /\ ~isProgramRunning
    /\ savedTimerName' = text
    /\ lastOp' = Op("setSavedTimerName", Null)
    /\ RenderSameDeps
    /\ UNCHANGED <<savedTimers, loadedTimerId, savedTimerIdRef, storage>>
    /\ UNCHANGED <<builderVars, harnessVars, historyVars>>

\* Lines 234-255.
saveOrUpdateTimer ==
    /\ ~isProgramRunning
    /\ IF Trim(savedTimerName) = <<>> \/ Len(instructions) = 0
       THEN /\ lastOp' = Op("save:rejected", Null)
            /\ UNCHANGED <<savedVars, runnerVars>>
       ELSE IF loadedTimerId # Null
       THEN /\ savedTimers' =
                   [k \in 1..Len(savedTimers) |->
                       IF savedTimers[k].id = Val(loadedTimerId)
                       THEN [savedTimers[k] EXCEPT !.name = savedTimerName,
                                                   !.instructions = instructions]
                       ELSE savedTimers[k]]
            /\ loadedTimerId' = Null
            /\ savedTimerName' = <<>>
            /\ storage' = SaveEffect(savedTimers')
            /\ lastOp' = Op("update", Val(loadedTimerId))
            /\ RenderSameDeps
            /\ UNCHANGED savedTimerIdRef
       ELSE /\ savedTimers' = Append(savedTimers,
                                     [id |-> savedTimerIdRef,
                                      name |-> savedTimerName,
                                      instructions |-> instructions])
            /\ savedTimerIdRef' = savedTimerIdRef + 1
            /\ savedTimerName' = <<>>
            /\ storage' = SaveEffect(savedTimers')
            /\ lastOp' = Op("save", savedTimerIdRef)
            /\ RenderSameDeps
            /\ UNCHANGED loadedTimerId
    /\ UNCHANGED <<builderVars, harnessVars, historyVars>>

\* Lines 258-262, for the saved timer at position k of the rendered list.
loadTimer(k) ==
    /\ ~isProgramRunning
    /\ k \in 1..Len(savedTimers)
    /\ instructions' = savedTimers[k].instructions
    /\ savedTimerName' = savedTimers[k].name
    /\ loadedTimerId' = {savedTimers[k].id}
    /\ lastOp' = Op("load", savedTimers[k].id)
    /\ RenderSameDeps
    /\ UNCHANGED <<timeInput, repeatInput, instructionIdRef>>
    /\ UNCHANGED <<savedTimers, savedTimerIdRef, storage>>
    /\ UNCHANGED <<harnessVars, historyVars>>

\* Lines 265-272; answer is what the prompt returned.
editSavedTimer(id, answer) ==
    /\ ~isProgramRunning
    /\ IF answer = Null \/ Val(answer) = <<>>
       THEN /\ lastOp' = Op("rename:cancelled", id)
            /\ UNCHANGED <<savedVars, runnerVars>>
       ELSE /\ savedTimers' =
                   [k \in 1..Len(savedTimers) |->
                       IF savedTimers[k].id = id
                       THEN [savedTimers[k] EXCEPT !.name = Val(answer)]
                       ELSE savedTimers[k]]
            /\ storage' = SaveEffect(savedTimers')
            /\ lastOp' = Op("rename", id)
            /\ RenderSameDeps
            /\ UNCHANGED <<savedTimerName, loadedTimerId, savedTimerIdRef>>
    /\ UNCHANGED <<builderVars, harnessVars, historyVars>>

\* Lines 275-277.
deleteSavedTimer(id) ==
    /\ ~isProgramRunning
    /\ savedTimers' = SelectSeq(savedTimers, LAMBDA timer : timer.id # id)
    /\ storage' = SaveEffect(savedTimers')
    /\ lastOp' = Op("deleteSaved", id)
    /\ RenderSameDeps
    /\ UNCHANGED <<savedTimerName, loadedTimerId, savedTimerIdRef>>
    /\ UNCHANGED <<builderVars, harnessVars, historyVars>>

\* The saved timers after the mount effects of a fresh page (lines 217-226):
\* the parsed slot, or the initial empty list when the slot is absent or its
\* text does not parse.
LoadedOnMount(slot) ==
    IF slot = Null \/ Parse(Val(slot)) = Null THEN <<>>
    ELSE Val(Parse(Val(slot)))

\* Mutant of reload: the slot is read after the mount-time write of the empty
\* list.
reloadReadsAfterWrite ==
    /\ instructions' = <<>>
    /\ timeInput' = <<>>
    /\ repeatInput' = 1
    /\ instructionIdRef' = 0
    /\ flattenedSequence' = <<>>
    /\ programState' = [index |-> 0, countdown |-> 0]
    /\ isProgramRunning' = FALSE
    /\ programIntervalRef' = 0
    /\ intervals' = {}
    /\ effectPending' = FALSE
    /\ savedTimers' = LoadedOnMount(SaveEffect(<<>>))
    /\ savedTimerName' = <<>>
    /\ loadedTimerId' = Null
    /\ savedTimerIdRef' = 0
    /\ storage' = SaveEffect(LoadedOnMount(SaveEffect(<<>>)))
    /\ phase' = "Idle"
    /\ tickCount' = 0
    /\ cueCount' = 0
    /\ patchCount' = 0
    /\ lastOp' = Op("reload", Null)
    /\ UNCHANGED harnessVars

\* A page reload: every useState and useRef starts over (lines 20-25, 139-146,
\* 211-214), the page's intervals are gone and the storage slot is kept; the
\* mount effects write the initial empty list, load the slot as read before
\* that write, and the render that follows writes the loaded list.
reload ==
    /\ instructions' = <<>>
    /\ timeInput' = <<>>
    /\ repeatInput' = 1
    /\ instructionIdRef' = 0
    /\ flattenedSequence' = <<>>
    /\ programState' = [index |-> 0, countdown |-> 0]
    /\ isProgramRunning' = FALSE
    /\ programIntervalRef' = 0
    /\ intervals' = {}
    /\ effectPending' = FALSE
    /\ savedTimers' = LoadedOnMount(storage)
    /\ savedTimerName' = <<>>
    /\ loadedTimerId' = Null
    /\ savedTimerIdRef' = 0
    /\ storage' = SaveEffect(LoadedOnMount(storage))
    /\ phase' = "Idle"
    /\ tickCount' = 0
    /\ cueCount' = 0
    /\ patchCount' = 0
    /\ lastOp' = Op("reload", Null)
    /\ UNCHANGED harnessVars

\* The environment: the slot's text is cut short by something other than this
\* page, so that JSON.parse throws on it (lines 220-224).
corruptStorage ==
    /\ storage # Null
    /\ Parse(Val(storage)) # Null
    /\ storage' = {SubSeq(Val(storage), 1, Len(Val(storage)) - 1)}
    /\ lastOp' = Op("corrupt", Null)
    /\ UNCHANGED <<savedTimers, savedTimerName, loadedTimerId, savedTimerIdRef,
                   builderVars, runnerVars, harnessVars, historyVars>>

\* The environment: the slot is removed, so that getItem returns null (lines
\* 218-219).
removeStorage ==
    /\ storage # Null
    /\ storage' = Null
    /\ lastOp' = Op("remove", Null)
    /\ UNCHANGED <<savedTimers, savedTimerName, loadedTimerId, savedTimerIdRef,
                   builderVars, runnerVars, harnessVars, historyVars>>

(* ------------------------- initial states, inputs --------------------- *)
\* The component after its first mount on an empty storage (the mount-time
\* effect of lines 229-231 has written the empty list).
InitMounted ==
    /\ instructions = <<>>
    /\ timeInput = <<>>
    /\ repeatInput = 1
    /\ instructionIdRef = 0
    /\ flattenedSequence = <<>>
    /\ programState = [index |-> 0, countdown |-> 0]
    /\ isProgramRunning = FALSE
    /\ programIntervalRef = 0
    /\ intervals = {}
    /\ effectPending = FALSE
    /\ savedTimers = <<>>
    /\ savedTimerName = <<>>
    /\ loadedTimerId = Null
    /\ savedTimerIdRef = 0
    /\ storage = {Stringify(<<>>)}
    /\ flattenInput = <<>>
    /\ flattenOutput = Null
    /\ formatInput = Null
    /\ parseInput = Null
    /\ parseOutput = Null
    /\ phase = "Idle"
    /\ tickCount = 0
    /\ cueCount = 0
    /\ patchCount = 0
    /\ lastOp = Op("mount", Null)

\* Payloads of the instruction lists the runner starts from and of those the
\* expander harness is called with: Wait durations and Repeat counts (the
\* repeat input can hold any non-zero integer; the expander is also given a
\* negative count).
RunPayloads == [type : {"time"}, time : {1, 2}]
                  \cup [type : {"repeat"}, times : {1, 2}]
FlattenPayloads == [type : {"time"}, time : {2, 3, 5}]
                      \cup [type : {"repeat"}, times : {0 - 1, 1, 2}]

\* The lists of n instructions with identifiers 1..n: each is what the builder
\* holds after a first Wait (identifier 0), n further additions and the
\* deletion of that first Wait.
InstrListsOfLen(n, payloads) ==
    {[i \in 1..n |-> IF p[i].type = "time" THEN TimeInst(i, p[i].time)
                     ELSE RepeatInst(i, p[i].times)] : p \in [1..n -> payloads]}

InstrLists(maxLen, payloads) ==
    UNION {InstrListsOfLen(n, payloads) : n \in 0..maxLen}

\* What the user may answer to the prompt of editCurrentInstruction.
PromptAnswers ==
    {Null, {<<"0", ":", "0", "3">>}, {<<"0">>}, {<<"x">>}}

(* --------------------------- the runner alone -------------------------- *)
InitRun ==
    /\ instructions \in InstrLists(MaxRunInstr, RunPayloads)
    /\ timeInput = <<>>
    /\ repeatInput = 1
    /\ instructionIdRef = Len(instructions) + 1
    /\ flattenedSequence = <<>>
    /\ programState = [index |-> 0, countdown |-> 0]
    /\ isProgramRunning = FALSE
    /\ programIntervalRef = 0
    /\ intervals = {}
    /\ effectPending = FALSE
    /\ savedTimers = IF instructions = <<>> THEN <<>>
                     ELSE <<[id |-> 0, name |-> <<"a">>,
                             instructions |-> instructions]>>
    /\ savedTimerName = <<>>
    /\ loadedTimerId = Null
    /\ savedTimerIdRef = Len(savedTimers)
    /\ storage = SaveEffect(savedTimers)
    /\ flattenInput = <<>>
    /\ flattenOutput = Null
    /\ formatInput = Null
    /\ parseInput = Null
    /\ parseOutput = Null
    /\ phase = "Idle"
    /\ tickCount = 0
    /\ cueCount = 0
    /\ patchCount = 0
    /\ lastOp = Op("mount", Null)

RunBounds ==
    /\ patchCount <= MaxPatches
    /\ phase = "Finished" => cueCount <= Len(flattenedSequence) + MaxStaleTicks

NextRun ==
    \/ startProgram /\ RunBounds'
    \/ stopProgram /\ RunBounds'
    \/ \E answer \in PromptAnswers : editCurrentInstruction(answer) /\ RunBounds'
    \/ tick /\ RunBounds'
    \/ flushCountdownEffect /\ RunBounds'

SpecRun == InitRun /\ [][NextRun]_vars

(* ----------------------------- runner claims -------------------------- *)
Times(sequence) == [j \in 1..Len(sequence) |-> sequence[j].time]

\* Ticks a run needs to leave the first i entries behind: d_j + 1 for each.
RECURSIVE TicksBefore(_, _)
TicksBefore(sequence, i) ==
    IF i = 0 THEN 0
    ELSE TicksBefore(sequence, i - 1) + sequence[i].time + 1

C1_Position ==
    (phase = "Running" /\ patchCount = 0) =>
        LET i == programState.index
            c == programState.countdown
        IN  /\ i \in 0..(Len(flattenedSequence) - 1)
            /\ c \in 0..flattenedSequence[i + 1].time
            /\ tickCount = TicksBefore(flattenedSequence, i)
                               + flattenedSequence[i + 1].time - c
            /\ cueCount = i

C1_Tick ==
    (phase = "Running" /\ patchCount = 0 /\ lastOp'.name = "tick") =>
        IF programState.countdown > 0
        THEN /\ programState' = [programState EXCEPT
                                     !.countdown = programState.countdown - 1]
             /\ cueCount' = cueCount
             /\ phase' = "Running"
        ELSE /\ cueCount' = cueCount + 1
             /\ IF programState.index + 1 < Len(flattenedSequence)
                THEN /\ programState' =
                            [index |-> programState.index + 1,
                             countdown |->
                                 flattenedSequence[programState.index + 2].time]
                     /\ phase' = "Running"
                ELSE /\ phase' = "Finished"
                     /\ tickCount' = TicksBefore(flattenedSequence,
                                                 Len(flattenedSequence))
                     /\ cueCount' = Len(flattenedSequence)

\* C1: in a run that is neither stopped nor patched, the k-th tick finds the
\* runner at the k-th pair of (0,d_0),(0,d_0 - 1),...,(0,0),(1,d_1),...,(n-1,0):
\* the tick count determines (index, countdown) and the cue count is the
\* index; a tick at countdown > 0 only decrements, a tick at countdown 0 fires
\* one cue and moves to the next entry or to Finished, which is reached after
\* sum(d_i) + n ticks and n cues.
C1_TickSequence == []C1_Position /\ [][C1_Tick]_vars

\* A run of [2,1] that has just finished: 5 ticks, 2 cues.
C1_Witness ==
    /\ phase = "Finished"
    /\ patchCount = 0
    /\ Times(flattenedSequence) = <<2, 1>>
    /\ tickCount = 5
    /\ cueCount = 2

\* C2: from stopProgram until the next start no interval callback runs, no
\* interval is live, and the run state, the flat sequence and the cue count
\* stay as they are.
C2_StopIsFinal ==
    /\ [](phase = "Idle" => intervals = {} /\ ~isProgramRunning)
    /\ [][(phase = "Idle" /\ lastOp'.name # "start") =>
              /\ lastOp'.name # "tick"
              /\ UNCHANGED <<programState, flattenedSequence, cueCount,
                             isProgramRunning>>]_vars

\* A handler has run after a stop that interrupted a run in progress.
C2_Witness ==
    /\ phase = "Idle"
    /\ tickCount > 0
    /\ programState.countdown > 0
    /\ lastOp.name = "patch:notRunning"

\* C3 as claimed: once Finished, no interval callback runs and no further cue
\* is fired.
C3_NoTickAfterFinished ==
    [][(phase = "Finished" /\ phase' = "Finished") =>
           /\ lastOp'.name # "tick"
           /\ cueCount' = cueCount]_vars

OnlyRepeats(instrs) == \A k \in 1..Len(instrs) : instrs[k].type = "repeat"

FirstWait(instrs) ==
    instrs[CHOOSE k \in 1..Len(instrs) :
               /\ instrs[k].type = "time"
               /\ \A j \in 1..(k - 1) : instrs[j].type = "repeat"]

\* C5: start on a list that is empty or holds only Repeat instructions is
\* refused and leaves the runner Idle with run state and flat sequence as they
\* were; any other start enters Running with index 0 and the countdown of the
\* first flat entry (the first Wait of the list).
C5_StartRejectsEmpty ==
    [][lastOp'.name \in {"start", "start:rejected"} =>
          IF OnlyRepeats(instructions)
          THEN /\ lastOp'.name = "start:rejected"
               /\ ~isProgramRunning'
               /\ phase' = phase
               /\ UNCHANGED <<programState, flattenedSequence>>
          ELSE /\ lastOp'.name = "start"
               /\ isProgramRunning'
               /\ phase' = "Running"
               /\ flattenedSequence' # <<>>
               /\ programState' =
                      [index |-> 0, countdown |-> flattenedSequence'[1].time]
               /\ flattenedSequence'[1] = FirstWait(instructions)]_vars

\* A start was refused on a non-empty list of Repeat instructions.
C5_Witness ==
    /\ lastOp.name = "start:rejected"
    /\ instructions # <<>>
    /\ phase = "Idle"

PatchNames == {"patch", "patch:rejected", "patch:notRunning"}

\* The duration an answer to the prompt stands for, Null when the prompt was
\* cancelled, left empty, or the text is unparsable or not positive.
ValidDuration(answer) ==
    IF answer = Null \/ Val(answer) = <<>> THEN Null
    ELSE {v \in parseTimeInput(Val(answer)) : v > 0}

\* C6: a patch with a valid positive duration while Running replaces the time
\* of flattenedSequence[index] and the countdown by it and leaves the index,
\* the length and every other entry alone; while not Running, or with an
\* invalid answer, the run state and the flat sequence do not change.
C6_PatchFrame ==
    [][lastOp'.name \in PatchNames =>
          LET d == ValidDuration(lastOp'.arg)
              i == programState.index + 1
          IN  IF isProgramRunning /\ d # Null
              THEN /\ lastOp'.name = "patch"
                   /\ Len(flattenedSequence') = Len(flattenedSequence)
                   /\ flattenedSequence'[i] =
                          [flattenedSequence[i] EXCEPT !.time = Val(d)]
                   /\ \A j \in 1..Len(flattenedSequence) :
                          j # i => flattenedSequence'[j] = flattenedSequence[j]
                   /\ programState' =
                          [index |-> programState.index, countdown |-> Val(d)]
                   /\ isProgramRunning'
              ELSE /\ lastOp'.name # "patch"
                   /\ UNCHANGED <<programState, flattenedSequence,
                                  isProgramRunning>>]_vars

\* A patch has changed one of two copies of the same Wait.
C6_Witness ==
    /\ lastOp.name = "patch"
    /\ \E i, j \in 1..Len(flattenedSequence) :
           /\ i = programState.index + 1
           /\ j # i
           /\ flattenedSequence[j].id = flattenedSequence[i].id
           /\ flattenedSequence[j].time # flattenedSequence[i].time

(* -------------------------- the expander alone ------------------------- *)
InitFlatten ==
    /\ flattenInput \in InstrLists(MaxFlattenInstr, FlattenPayloads)
    /\ flattenOutput = Null
    /\ formatInput = Null
    /\ parseInput = Null
    /\ parseOutput = Null
    /\ instructions = <<>>
    /\ timeInput = <<>>
    /\ repeatInput = 1
    /\ instructionIdRef = 0
    /\ flattenedSequence = <<>>
    /\ programState = [index |-> 0, countdown |-> 0]
    /\ isProgramRunning = FALSE
    /\ programIntervalRef = 0
    /\ intervals = {}
    /\ effectPending = FALSE
    /\ savedTimers = <<>>
    /\ savedTimerName = <<>>
    /\ loadedTimerId = Null
    /\ savedTimerIdRef = 0
    /\ storage = {Stringify(<<>>)}
    /\ phase = "Idle"
    /\ tickCount = 0
    /\ cueCount = 0
    /\ patchCount = 0
    /\ lastOp = Op("mount", Null)

\* One call flattenInstructionsEntire(flattenInput).
callFlatten ==
    /\ flattenOutput = Null
    /\ flattenOutput' = {flattenInstructionsEntire(flattenInput)}
    /\ lastOp' = Op("flatten", Null)
    /\ UNCHANGED <<flattenInput, timeVars, builderVars, runnerVars, savedVars,
                   historyVars>>

NextFlatten == callFlatten

SpecFlatten == InitFlatten /\ [][NextFlatten]_vars

(* ---------------------------- expander claim --------------------------- *)
RECURSIVE Copies(_, _)
Copies(snapshot, k) == IF k <= 0 THEN <<>> ELSE snapshot \o Copies(snapshot, k - 1)

\* The reference expansion, on durations: the expansion of the list without
\* its last instruction, followed by the last Wait's duration or by k copies
\* of that expansion.
RECURSIVE RefExpand(_)
RefExpand(instrs) ==
    IF instrs = <<>> THEN <<>>
    ELSE LET n == Len(instrs)
             prefix == RefExpand(SubSeq(instrs, 1, n - 1))
         IN  IF instrs[n].type = "time" THEN Append(prefix, instrs[n].time)
             ELSE prefix \o Copies(prefix, instrs[n].times)

\* The list without identifiers.
PayloadOf(inst) ==
    IF inst.type = "time" THEN <<"Wait", inst.time>> ELSE <<"Repeat", inst.times>>

PayloadsOf(instrs) == [k \in 1..Len(instrs) |-> PayloadOf(instrs[k])]

\* C4: the list flattenInstructionsEntire returns has the durations of the
\* reference expansion; without a Repeat these are the Wait durations in
\* order; a list that ends in Repeat(k), k >= 1, expands to k+1 times the
\* length of the expansion of the rest; [Wait(5),Repeat(2),Wait(3)] gives
\* [5,5,5,3] and [Wait(2),Wait(3),Repeat(1)] gives [2,3,2,3].
C4_ExpandMatchesReference ==
    flattenOutput # Null =>
        LET out == Times(Val(flattenOutput))
            n == Len(flattenInput)
        IN  /\ out = RefExpand(flattenInput)
            /\ (\A k \in 1..n : flattenInput[k].type = "time") =>
                   out = [k \in 1..n |-> flattenInput[k].time]
            /\ (n > 0 /\ flattenInput[n].type = "repeat"
                      /\ flattenInput[n].times >= 1) =>
                   Len(out) = (flattenInput[n].times + 1)
                       * Len(flattenInstructionsEntire(SubSeq(flattenInput, 1, n - 1)))
            /\ PayloadsOf(flattenInput) =
                   <<<<"Wait", 5>>, <<"Repeat", 2>>, <<"Wait", 3>>>> =>
                   out = <<5, 5, 5, 3>>
            /\ PayloadsOf(flattenInput) =
                   <<<<"Wait", 2>>, <<"Wait", 3>>, <<"Repeat", 1>>>> =>
                   out = <<2, 3, 2, 3>>

\* The expander has returned [5,5,5,3] for [Wait(5),Repeat(2),Wait(3)].
C4_Witness ==
    /\ flattenOutput # Null
    /\ PayloadsOf(flattenInput) = <<<<"Wait", 5>>, <<"Repeat", 2>>, <<"Wait", 3>>>>
    /\ Times(Val(flattenOutput)) = <<5, 5, 5, 3>>

(* ------------------------- the instruction list ------------------------ *)
\* What the user may type into the time field and the repeat field and answer
\* to the prompts of editInstruction.
TimeTexts == {<<"1">>, <<"0">>, <<"x">>}
RepeatTexts == {<<"2">>, <<"-", "1">>, <<"0">>}
EditAnswers == {Null, {<<"2">>}, {<<"0">>}, {<<"x">>}}

InstrBounds ==
    /\ Len(instructions) <= MaxInstr
    /\ instructionIdRef <= MaxInstrId

NextInstr ==
    \/ \E text \in TimeTexts : setTimeInput(text) /\ InstrBounds'
    \/ \E text \in RepeatTexts : setRepeatInput(text) /\ InstrBounds'
    \/ addTimeInstruction /\ InstrBounds'
    \/ addRepeatInstruction /\ InstrBounds'
    \/ \E id \in 0..MaxInstrId :
           \E answers \in [Prompted(instructions, id) -> EditAnswers] :
               editInstruction(id, answers) /\ InstrBounds'
    \/ \E id \in 0..MaxInstrId : deleteInstruction(id) /\ InstrBounds'
    \/ clearInstructions /\ InstrBounds'

SpecInstr == InitMounted /\ [][NextInstr]_vars

(* ------------------------ instruction-list claims ---------------------- *)
AddRepeatNames == {"addRepeat", "addRepeat:rejected"}

\* C7: addRepeatInstruction on a list without a Wait instruction leaves the
\* list as it is and takes no identifier.
C7_RepeatNeedsWait ==
    [][(lastOp'.name \in AddRepeatNames
            /\ \A k \in 1..Len(instructions) : instructions[k].type # "time") =>
           /\ lastOp'.name = "addRepeat:rejected"
           /\ instructions' = instructions
           /\ instructionIdRef' = instructionIdRef]_vars

\* addRepeatInstruction was refused on a non-empty list (its Wait was deleted).
C7_Witness ==
    /\ lastOp.name = "addRepeat:rejected"
    /\ instructions # <<>>
    /\ instructionIdRef > 0

\* C8 as claimed: addRepeatInstruction with a count <= 0 in the repeat input
\* leaves the list unchanged, and every Repeat in the list has a count >= 1.
C8_RepeatCountPositive ==
    /\ [][(lastOp'.name \in AddRepeatNames /\ repeatInput <= 0) =>
              instructions' = instructions]_vars
    /\ [](\A k \in 1..Len(instructions) :
              instructions[k].type = "repeat" => instructions[k].times >= 1)

(* -------------------- identifiers across page reloads ------------------ *)
\* What the user may type into the name field and answer to the prompt of
\* editSavedTimer; the texts and answers that the handlers accept.
NameTexts == {<<"a">>, <<" ">>}
RenameAnswers == {Null, {<<"b">>}}
AcceptedTimeTexts == {<<"1">>}
AcceptedEditAnswers == {{<<"2">>}}
AcceptedNameTexts == {<<"a">>}

IdsBounds ==
    /\ Len(instructions) <= MaxIdsInstr
    /\ instructionIdRef <= MaxIdsInstrId
    /\ Len(savedTimers) <= MaxIdsSaved

NextIds ==
    \/ \E text \in AcceptedTimeTexts : setTimeInput(text) /\ IdsBounds'
    \/ addTimeInstruction /\ IdsBounds'
    \/ addRepeatInstruction /\ IdsBounds'
    \/ \E id \in 0..MaxIdsInstrId :
           \E answers \in [Prompted(instructions, id) -> AcceptedEditAnswers] :
               editInstruction(id, answers) /\ IdsBounds'
    \/ \E id \in 0..MaxIdsInstrId : deleteInstruction(id) /\ IdsBounds'
    \/ clearInstructions /\ IdsBounds'
    \/ \E text \in AcceptedNameTexts : setSavedTimerName(text) /\ IdsBounds'
    \/ saveOrUpdateTimer /\ IdsBounds'
    \/ \E k \in 1..MaxIdsSaved : loadTimer(k) /\ IdsBounds'
    \/ reload /\ IdsBounds'

SpecIds == InitMounted /\ [][NextIds]_vars

SavedBounds ==
    /\ Len(instructions) <= MaxSavedInstr
    /\ instructionIdRef <= MaxSavedInstr
    /\ Len(savedTimers) <= MaxSaved
    /\ savedTimerIdRef <= MaxSavedId

NextSaved ==
    \/ \E text \in AcceptedTimeTexts : setTimeInput(text) /\ SavedBounds'
    \/ addTimeInstruction /\ SavedBounds'
    \/ clearInstructions /\ SavedBounds'
    \/ \E text \in NameTexts : setSavedTimerName(text) /\ SavedBounds'
    \/ saveOrUpdateTimer /\ SavedBounds'
    \/ \E k \in 1..MaxSaved : loadTimer(k) /\ SavedBounds'
    \/ \E id \in 0..MaxSavedId :
           \E answer \in RenameAnswers : editSavedTimer(id, answer) /\ SavedBounds'
    \/ \E id \in 0..MaxSavedId : deleteSavedTimer(id) /\ SavedBounds'
    \/ reload /\ SavedBounds'

SpecSaved == InitMounted /\ [][NextSaved]_vars

(* --------------------------- identifier claims ------------------------- *)
DistinctIds(seq) ==
    \A i, j \in 1..Len(seq) : i # j => seq[i].id # seq[j].id

Ids(seq) == [k \in 1..Len(seq) |-> seq[k].id]

\* C9 as claimed: whatever additions, edits, deletions, clears, saves, loads
\* and page reloads have happened, no two instructions of the list share an
\* identifier, and an edit leaves every identifier as it was.
C9_InstructionIdsUnique ==
    /\ []DistinctIds(instructions)
    /\ [][lastOp'.name = "edit" => Ids(instructions') = Ids(instructions)]_vars

\* C10 as claimed: whatever saves, updates, renames, deletions and page
\* reloads have happened, the saved timers have pairwise distinct ids, so a
\* rename or deletion by id touches exactly one saved timer.
C10_SavedTimerIdsUnique ==
    /\ []DistinctIds(savedTimers)
    /\ [][(lastOp'.name = "deleteSaved"
              /\ \E k \in 1..Len(savedTimers) : savedTimers[k].id = lastOp'.arg) =>
             Len(savedTimers') = Len(savedTimers) - 1]_vars
    /\ [][(lastOp'.name = "rename"
              /\ \E k \in 1..Len(savedTimers) : savedTimers[k].id = lastOp'.arg) =>
             Cardinality({k \in 1..Len(savedTimers) :
                             savedTimers'[k].name # savedTimers[k].name}) <= 1]_vars

(* ------------------------------ edit claim ----------------------------- *)
\* The count an answer to the repeat prompt stands for, Null when the prompt
\* was cancelled, left empty, or the text is no positive integer.
ValidCount(answer) ==
    IF answer = Null \/ Val(answer) = <<>> THEN Null
    ELSE {v \in parseInt(Val(answer)) : v > 0}

\* The instruction as the claim has it after an edit answered with answer.
EditedAsClaimed(inst, answer) ==
    IF inst.type = "time"
    THEN IF ValidDuration(answer) = Null THEN inst
         ELSE TimeInst(inst.id, Val(ValidDuration(answer)))
    ELSE IF ValidCount(answer) = Null THEN inst
         ELSE RepeatInst(inst.id, Val(ValidCount(answer)))

\* C11: editInstruction(id) leaves length, order, identifiers and types as
\* they are, changes no instruction with another identifier, and gives the
\* instruction with the identifier the new payload when the answer is a valid
\* positive value; with an absent identifier or a missing, unparsable or
\* non-positive answer the whole list is unchanged.
C11_EditFrame ==
    [][lastOp'.name = "edit" =>
          /\ Len(instructions') = Len(instructions)
          /\ \A k \in 1..Len(instructions) :
                 IF instructions[k].id = lastOp'.arg.id
                 THEN instructions'[k] =
                          EditedAsClaimed(instructions[k], lastOp'.arg.answers[k])
                 ELSE instructions'[k] = instructions[k]
          /\ UNCHANGED instructionIdRef]_vars

\* An edit has given a Repeat that follows a Wait the count 2.
C11_Witness ==
    /\ lastOp.name = "edit"
    /\ Len(instructions) >= 2
    /\ \E k \in 2..Len(instructions) :
           /\ instructions[k].id = lastOp.arg.id
           /\ lastOp.arg.answers[k] = {<<"2">>}
           /\ instructions[k] = RepeatInst(lastOp.arg.id, 2)
           /\ instructions[1].type = "time"

(* ----------------------- the time helpers alone ----------------------- *)
\* The durations formatTime is called with: every one up to MaxSmallSeconds,
\* and some around the minute, hour and hundred-hour marks.
FormatInputs ==
    0..MaxSmallSeconds
        \cup {599, 600, 3599, 3600, 3661, 35999, 36000, 86399,
              359999, 360000, 360001, 363661, 3600000, 3603599}

InitRoundTrip ==
    /\ formatInput \in {{t} : t \in FormatInputs}
    /\ parseInput = Null
    /\ parseOutput = Null
    /\ instructions = <<>>
    /\ timeInput = <<>>
    /\ repeatInput = 1
    /\ instructionIdRef = 0
    /\ flattenedSequence = <<>>
    /\ programState = [index |-> 0, countdown |-> 0]
    /\ isProgramRunning = FALSE
    /\ programIntervalRef = 0
    /\ intervals = {}
    /\ effectPending = FALSE
    /\ savedTimers = <<>>
    /\ savedTimerName = <<>>
    /\ loadedTimerId = Null
    /\ savedTimerIdRef = 0
    /\ storage = {Stringify(<<>>)}
    /\ flattenInput = <<>>
    /\ flattenOutput = Null
    /\ phase = "Idle"
    /\ tickCount = 0
    /\ cueCount = 0
    /\ patchCount = 0
    /\ lastOp = Op("mount", Null)

\* One call formatTime(formatInput); its result is what the prompt of lines
\* 86-87 and 166-167 is pre-filled with.
callFormatTime ==
    /\ formatInput # Null
    /\ parseInput = Null
    /\ parseInput' = {formatTime(Val(formatInput))}
    /\ lastOp' = Op("formatTime", Null)
    /\ UNCHANGED <<formatInput, parseOutput, flattenVars, builderVars, runnerVars,
                   savedVars, historyVars>>

\* One call parseTimeInput(parseInput).
callParseTimeInput ==
    /\ parseInput # Null
    /\ parseOutput = Null
    /\ parseOutput' = {parseTimeInput(Val(parseInput))}
    /\ lastOp' = Op("parseTimeInput", Null)
    /\ UNCHANGED <<formatInput, parseInput, flattenVars, builderVars, runnerVars,
                   savedVars, historyVars>>

NextRoundTrip ==
    \/ callFormatTime
    \/ callParseTimeInput

SpecRoundTrip == InitRoundTrip /\ [][NextRoundTrip]_vars

(* --------------------------- round-trip claim -------------------------- *)
\* C12: for every non-negative t, also with an hours field of more than two
\* digits (t >= 360000), parseTimeInput(formatTime(t)) is t.
C12_RoundTrip ==
    (formatInput # Null /\ parseOutput # Null) => Val(parseOutput) = formatInput

\* The round trip has been made for a duration of a hundred hours or more.
C12_Witness ==
    /\ formatInput # Null
    /\ Val(formatInput) >= 360000
    /\ parseInput # Null
    /\ Len(Val(parseInput)) > 8
    /\ parseOutput # Null

(* --------------------------- the parser alone -------------------------- *)
\* The fields the texts given to parseTimeInput are made of: integers, a
\* negative one, a word, the empty field, digits followed by a letter.
ParseFields == {<<"1">>, <<"1", "2">>, <<"-", "1">>, <<"x">>, <<>>, <<"1", "x">>}

\* fields.join(":").
RECURSIVE Join(_)
Join(fields) ==
    IF Len(fields) = 1 THEN fields[1]
    ELSE fields[1] \o <<":">> \o Join(Tail(fields))

ParseInputs ==
    {Join(fields) : fields \in UNION {[1..n -> ParseFields] : n \in 1..MaxFields}}

InitParse ==
    /\ formatInput = Null
    /\ parseInput \in {{text} : text \in ParseInputs}
    /\ parseOutput = Null
    /\ instructions = <<>>
    /\ timeInput = <<>>
    /\ repeatInput = 1
    /\ instructionIdRef = 0
    /\ flattenedSequence = <<>>
    /\ programState = [index |-> 0, countdown |-> 0]
    /\ isProgramRunning = FALSE
    /\ programIntervalRef = 0
    /\ intervals = {}
    /\ effectPending = FALSE
    /\ savedTimers = <<>>
    /\ savedTimerName = <<>>
    /\ loadedTimerId = Null
    /\ savedTimerIdRef = 0
    /\ storage = {Stringify(<<>>)}
    /\ flattenInput = <<>>
    /\ flattenOutput = Null
    /\ phase = "Idle"
    /\ tickCount = 0
    /\ cueCount = 0
    /\ patchCount = 0
    /\ lastOp = Op("mount", Null)

NextParse == callParseTimeInput

SpecParse == InitParse /\ [][NextParse]_vars

(* ----------------------------- parser claim ---------------------------- *)
\* A field that is a non-negative integer: one digit or more, nothing else.
IsNonNegativeInteger(field) ==
    field # <<>> /\ \A i \in 1..Len(field) : IsDigit(field[i])

\* What the claim has parseTimeInput return for a text.
ParsedAsClaimed(text) ==
    LET fields == split(text)
        n == Len(fields)
        field(i) == DigitsValue(fields[i], 0)
    IN  IF n \notin 1..3 \/ \E i \in 1..n : ~IsNonNegativeInteger(fields[i])
        THEN Null
        ELSE IF n = 3 THEN {field(1) * 3600 + field(2) * 60 + field(3)}
        ELSE IF n = 2 THEN {field(1) * 60 + field(2)}
        ELSE {field(1)}

\* C13: parseTimeInput returns secs, mins*60+secs or hrs*3600+mins*60+secs on
\* 1, 2 or 3 colon-separated fields that are all non-negative integers, and a
\* parse failure on every other text (a field that is no non-negative integer,
\* another number of fields).
C13_ParseExact ==
    (formatInput = Null /\ parseOutput # Null)
        => Val(parseOutput) = ParsedAsClaimed(Val(parseInput))

(* ------------------------- runner frame claim -------------------------- *)
\* C14: start, tick, stop and the edit of the current instruction leave the
\* instruction list and every saved timer as they are, and a start expands
\* the instruction list as it was authored, whatever an earlier run was
\* patched to.
C14_RunnerFrame ==
    [][/\ instructions' = instructions
       /\ savedTimers' = savedTimers
       /\ lastOp'.name = "start" =>
              Times(flattenedSequence') = RefExpand(instructions)]_vars

\* A run has started over a sequence an earlier run had patched; the saved
\* timer still holds the list.
C14_Witness ==
    /\ lastOp.name = "start"
    /\ lastOp.arg.replaced
    /\ savedTimers # <<>>
    /\ savedTimers[1].instructions = instructions

(* ------------------------- the storage slot ---------------------------- *)
\* A Wait of one second has been added to the list of a freshly mounted page.
InitPersist ==
    /\ instructions = <<TimeInst(0, 1)>>
    /\ timeInput = <<>>
    /\ repeatInput = 1
    /\ instructionIdRef = 1
    /\ flattenedSequence = <<>>
    /\ programState = [index |-> 0, countdown |-> 0]
    /\ isProgramRunning = FALSE
    /\ programIntervalRef = 0
    /\ intervals = {}
    /\ effectPending = FALSE
    /\ savedTimers = <<>>
    /\ savedTimerName = <<>>
    /\ loadedTimerId = Null
    /\ savedTimerIdRef = 0
    /\ storage = {Stringify(<<>>)}
    /\ flattenInput = <<>>
    /\ flattenOutput = Null
    /\ formatInput = Null
    /\ parseInput = Null
    /\ parseOutput = Null
    /\ phase = "Idle"
    /\ tickCount = 0
    /\ cueCount = 0
    /\ patchCount = 0
    /\ lastOp = Op("mount", Null)

PersistBounds ==
    /\ Len(savedTimers) <= MaxPersistSaved
    /\ savedTimerIdRef <= MaxPersistId

NextPersist ==
    \/ \E text \in AcceptedNameTexts : setSavedTimerName(text) /\ PersistBounds'
    \/ saveOrUpdateTimer /\ PersistBounds'
    \/ \E k \in 1..MaxPersistSaved : loadTimer(k) /\ PersistBounds'
    \/ \E id \in 0..MaxPersistId :
           \E answer \in RenameAnswers : editSavedTimer(id, answer) /\ PersistBounds'
    \/ \E id \in 0..MaxPersistId : deleteSavedTimer(id) /\ PersistBounds'
    \/ reload /\ PersistBounds'
    \/ corruptStorage /\ PersistBounds'
    \/ removeStorage /\ PersistBounds'

SpecPersist == InitPersist /\ [][NextPersist]_vars

(* --------------------------- persistence claim ------------------------- *)
SlotHolds(slot, timers) == slot # Null /\ Parse(Val(slot)) = {timers}

\* C15: after a save, an update, a rename and a delete the storage slot holds
\* the saved-timer list of the memory; a page reload on a slot that holds a
\* list L ends with L in memory and in the slot, and a page reload on a slot
\* whose text does not parse ends with the empty list.
C15_PersistenceRoundTrip ==
    [][/\ lastOp'.name \in {"save", "update", "rename", "deleteSaved"} =>
              SlotHolds(storage', savedTimers')
       /\ (lastOp'.name = "reload" /\ storage # Null) =>
              IF Parse(Val(storage)) # Null
              THEN /\ savedTimers' = Val(Parse(Val(storage)))
                   /\ SlotHolds(storage', Val(Parse(Val(storage))))
              ELSE savedTimers' = <<>>]_vars

\* A page reload has brought back two saved timers, one with a Wait.
C15_Witness ==
    /\ lastOp.name = "reload"
    /\ Len(savedTimers) = 2
    /\ \E k \in 1..2 : savedTimers[k].instructions # <<>>
    /\ SlotHolds(storage, savedTimers)

(* ------------------------ list invariant claim ------------------------- *)
\* C16: in every list that additions, edits, deletions, clears and loads can
\* produce, each Repeat has at least one Wait somewhere before it.
C16_RepeatFollowsWait ==
    \A k \in 1..Len(instructions) :
        instructions[k].type = "repeat" =>
            \E j \in 1..(k - 1) : instructions[j].type = "time"

(* --------------------------- interval claim ---------------------------- *)
\* C17: in every reachable state at most one interval is live, and none is
\* live unless the run is Running (not after stop, not once Finished).
C17_IntervalOnlyWhileRunning ==
    /\ Cardinality(intervals) <= 1
    /\ phase # "Running" => intervals = {}

(* --------------------------- run-state claim --------------------------- *)
\* C18: while Running, 0 <= index < Len(flattenedSequence) and
\* 0 <= countdown <= the duration of the entry at index, whatever ticks and
\* edits of the current instruction have happened; the tick that finishes
\* the run leaves index and countdown as they were.
C18_RunStateBounds ==
    [][/\ phase' = "Running" =>
              /\ programState'.index \in 0..(Len(flattenedSequence') - 1)
              /\ programState'.countdown >= 0
              /\ programState'.countdown
                     <= flattenedSequence'[programState'.index + 1].time
       /\ (phase = "Running" /\ phase' = "Finished") =>
              /\ programState' = programState
              /\ programState.index = Len(flattenedSequence) - 1]_vars

\* A run of two entries or more, patched on the way, has finished on its last
\* entry.
C18_Witness ==
    /\ phase = "Finished"
    /\ lastOp.name = "tick"
    /\ patchCount > 0
    /\ Len(flattenedSequence) >= 2
    /\ programState.index = Len(flattenedSequence) - 1
    /\ \E j \in 1..Len(flattenedSequence) : flattenedSequence[j].time = 3

(* ------------------------- the runner, fairly -------------------------- *)
\* A live interval keeps firing: the browser runs its callback again and
\* again until clearInterval (line 184, period 1000).
\* The prompt is cancelled or answered with a valid duration.
FairPromptAnswers == {Null, {<<"3">>}}

NextRunFair ==
    \/ startProgram /\ RunBounds'
    \/ stopProgram /\ RunBounds'
    \/ \E answer \in FairPromptAnswers : editCurrentInstruction(answer) /\ RunBounds'
    \/ tick /\ RunBounds'
    \/ flushCountdownEffect /\ RunBounds'

SpecRunFair == InitRun /\ [][NextRunFair]_vars /\ WF_vars(tick /\ RunBounds')

(* -------------------------- termination claim -------------------------- *)
\* C19: a run that is started and not stopped, with the finitely many edits
\* of the current instruction a run can have, reaches Finished when the
\* interval keeps firing; and the index never decreases during a run.
C19_RunTerminates ==
    /\ (phase = "Running") ~> (phase = "Finished" \/ lastOp.name = "stop")
    /\ [][(phase = "Running" /\ phase' # "Idle") =>
              programState'.index >= programState.index]_vars

\* A patched run has finished past its first entry and the effect cleanup has
\* run.
C19_Witness ==
    /\ phase = "Finished"
    /\ ~effectPending
    /\ patchCount = MaxPatches
    /\ programState.index >= 1
    /\ tickCount >= 4

(* ------------------------------ save claim ----------------------------- *)
\* C20: a save with a name that is not blank and a list that is not empty
\* leaves a saved timer with that name and that list, also when the timer
\* that was loaded has been deleted since; a save with a blank name or an
\* empty list leaves the saved timers as they are.
C20_SaveKeepsTimer ==
    [][lastOp'.name \in {"save", "update", "save:rejected"} =>
          IF Trim(savedTimerName) # <<>> /\ instructions # <<>>
          THEN \E k \in 1..Len(savedTimers') :
                   /\ savedTimers'[k].name = savedTimerName
                   /\ savedTimers'[k].instructions = instructions
          ELSE savedTimers' = savedTimers]_vars

=============================================================================
